---- MODULE Spec2Model ----
(***************************************************************************)
(* Appointment scheduling backend of agente-contatori: the Express         *)
(* handlers search / confirm / reschedule / test-appointment over the      *)
(* pianificazioni, operatori and call_logs tables, with the operator SMS   *)
(* notifier.  The repository holds several revisions of the confirm and    *)
(* reschedule handlers; the variable revision fixes which one is deployed. *)
(* Every await of a handler is a point where another request may run.      *)
(***************************************************************************)
EXTENDS Integers, Sequences, FiniteSets, TLC

(* ---------------------------------------------------------------- bounds *)
\* total number of HTTP requests issued in one behaviour
MaxRequests == 2

(* ------------------------------------------------------------- constants *)
\* "Max 5 appuntamenti per slot": parseInt(count) >= 5
MaxPerSlot == 5
\* '2024-07-25' as days since 1970-01-01 (a Thursday)
TestDate == 19929

NULL == "NULL"
Undefined == "undefined"
DefaultReason == "Riprogrammato su richiesta cliente"
TestMatricola == "TEST123456"
TestSlot == "09:00-12:00"

\* the revisions of the confirm / reschedule handlers kept in the repository
Revisions == {"first", "name", "latest", "complete"}

\* the handler invocations that may be in flight at the same time
Handlers == {1, 2}

(* ------------------------------------------------------- revision traits *)
\* the handler first SELECTs the target (WHERE p.id = $1 OR p.matricola = $2)
HasLookup(rev) == rev \in {"name", "latest"}

\* the availability COUNT carries AND stato != 'cancellato'
ExcludesCancelled(rev) == rev \in {"latest", "complete"}

\* the reschedule UPDATE sets note_riprogrammazione and data_modifica
WritesNote(rev) == rev \in {"latest", "complete"}

\* the confirm UPDATE sets data_conferma = CURRENT_TIMESTAMP
StampsConferma(rev) == rev \in {"latest", "complete"}

\* the handler INSERTs INTO call_logs after the update
Audits(rev) == rev \in {"latest", "complete"}

\* how the operator's phone is obtained: not at all, by the display name kept
\* in operatore_id (getOperatorPhone), or by the LEFT JOIN on operatori
Notifier(rev) ==
    CASE rev = "name" -> "byName"
      [] rev = "latest" -> "byJoin"
      [] OTHER -> "none"

(* ------------------------------------------------------------ operatori *)
\* Strings that the code splits are kept as sequences of pieces, a blank
\* being the piece " ".
Lower(w) ==
    CASE w = "MARIO" -> "mario"
      [] w = "Mario" -> "mario"
      [] w = "Rossi" -> "rossi"
      [] w = "Anna" -> "anna"
      [] w = "De" -> "de"
      [] w = "Luca" -> "luca"
      [] w = "Luigi" -> "luigi"
      [] w = "Carla" -> "carla"
      [] w = "Bianchi" -> "bianchi"
      [] OTHER -> w

LowerAll(s) == [i \in 1..Len(s) |-> Lower(s[i])]

\* table operatori: id -> nome, cognome, telefono
operatori ==
    [i \in {1, 2} |->
        IF i = 1
        THEN [nome |-> <<"Mario">>, cognome |-> <<"Rossi">>, telefono |-> "3331111111"]
        ELSE [nome |-> <<"Anna">>, cognome |-> <<"De", " ", "Luca">>, telefono |-> NULL]]

\* what the column pianificazioni.operatore_id holds for each operator key,
\* read as a display name by the name-lookup revision (0 is SQL NULL)
OperatoreNomeCompleto(k) ==
    CASE k = 1 -> <<"MARIO", " ", "Rossi">>
      [] k = 2 -> <<"Anna", " ", "De", " ", "Luca">>
      [] k = 3 -> <<"Luigi">>
      [] k = 4 -> <<"Carla", " ", "Bianchi">>
      [] OTHER -> <<>>

OperatorKeys == 0..4

(* ------------------------------------------------------ string helpers *)
RECURSIVE TrimLeft(_)
TrimLeft(s) == IF s # <<>> /\ Head(s) = " " THEN TrimLeft(Tail(s)) ELSE s

RECURSIVE TrimRight(_)
TrimRight(s) ==
    IF s # <<>> /\ s[Len(s)] = " " THEN TrimRight(SubSeq(s, 1, Len(s) - 1)) ELSE s

\* String.prototype.trim
Trim(s) == TrimRight(TrimLeft(s))

RECURSIVE SplitAcc(_, _, _)
SplitAcc(s, cur, acc) ==
    IF s = <<>> THEN Append(acc, cur)
    ELSE IF Head(s) = " " THEN SplitAcc(Tail(s), <<>>, Append(acc, cur))
    ELSE SplitAcc(Tail(s), Append(cur, Head(s)), acc)

\* String.prototype.split(' '): the parts between blanks ("" gives one part)
Split(s) == SplitAcc(s, <<>>, <<>>)

RECURSIVE Join(_)
\* Array.prototype.join(' ')
Join(parts) ==
    IF parts = <<>> THEN <<>>
    ELSE IF Len(parts) = 1 THEN parts[1]
    ELSE parts[1] \o <<" ">> \o Join(Tail(parts))

(* ---------------------------------------------------- operator notifier *)
\* SELECT telefono FROM operatori WHERE LOWER(nome) = LOWER($1)
\*   AND LOWER(cognome) = LOWER($2) LIMIT 1
OperatorQuery(nome, cognome) ==
    {i \in DOMAIN operatori :
        /\ LowerAll(operatori[i].nome) = LowerAll(nome)
        /\ LowerAll(operatori[i].cognome) = LowerAll(cognome)}

\* a lookup that compares nome and cognome as written, case included
getOperatorPhoneCaseSensitive(operatorFullName, queryOk) ==
    IF operatorFullName = <<>> THEN [queried |-> FALSE, phone |-> NULL]
    ELSE LET nameParts == Split(Trim(operatorFullName)) IN
         IF Len(nameParts) < 2 THEN [queried |-> FALSE, phone |-> NULL]
         ELSE LET found == {i \in DOMAIN operatori :
                               /\ operatori[i].nome = nameParts[1]
                               /\ operatori[i].cognome = Join(Tail(nameParts))}
              IN IF queryOk /\ found # {}
                 THEN [queried |-> TRUE,
                       phone |-> operatori[CHOOSE i \in found : TRUE].telefono]
                 ELSE [queried |-> TRUE, phone |-> NULL]

\* getOperatorPhone(operatorFullName); queryOk is whether pool.query answers.
\* The result says whether a lookup was issued and which phone came back.
getOperatorPhone(operatorFullName, queryOk) ==
    IF operatorFullName = <<>> THEN [queried |-> FALSE, phone |-> NULL]
    ELSE LET nameParts == Split(Trim(operatorFullName)) IN
         IF Len(nameParts) < 2 THEN [queried |-> FALSE, phone |-> NULL]
         ELSE LET nome == nameParts[1]
                  cognome == Join(Tail(nameParts))
                  found == OperatorQuery(nome, cognome)
              IN IF ~queryOk THEN [queried |-> TRUE, phone |-> NULL]
                 ELSE IF found # {}
                 THEN [queried |-> TRUE,
                       phone |-> operatori[CHOOSE i \in found : TRUE].telefono]
                 ELSE [queried |-> TRUE, phone |-> NULL]

\* what the SMS gateway does with one POST https://gatewayapi.com/rest/mtsms
GatewayBehaviours == {"accepted", "rejected", "network_error", "unparsable"}

\* await fetch(...) rejects
FetchThrows(gw) == gw = "network_error"

\* await response.json() rejects
JsonThrows(gw) == gw = "unparsable"

\* the parsed body that response.json() yields
GatewayBody(gw) == IF gw = "accepted" THEN "body_ids" ELSE "body_error"

\* sendSMSToOperator without its try / catch
sendSMSUncaught(operatorPhone, message, gw) ==
    IF FetchThrows(gw) \/ JsonThrows(gw)
    THEN [threw |-> TRUE, result |-> NULL]
    ELSE [threw |-> FALSE, result |-> GatewayBody(gw)]

\* sendSMSToOperator: try { fetch; json; return result } catch { return null }
\* threw tells whether an exception leaves the function.
sendSMSToOperator(operatorPhone, message, gw) ==
    IF FetchThrows(gw) \/ JsonThrows(gw)
    THEN [threw |-> FALSE, result |-> NULL]
    ELSE [threw |-> FALSE, result |-> GatewayBody(gw)]

\* JavaScript truthiness of a value that is null or a non-empty string/object
Truthy(x) == x # NULL /\ x # Undefined /\ x # ""

(* ------------------------------------------------------------ the store *)
\* WHERE id = $1 OR matricola = $2 (a NULL parameter matches nothing)
Matches(rows, appointment_id, matricola) ==
    {i \in 1..Len(rows) :
        \/ (appointment_id # 0 /\ i = appointment_id)
        \/ (matricola # Undefined /\ rows[i].matricola = matricola)}

\* SELECT COUNT(*) FROM pianificazioni WHERE data_appuntamento = $1
\*   AND fascia_oraria = $2 [AND stato != 'cancellato']
AvailabilityCount(rows, new_date, new_time_slot, rev) ==
    Cardinality({i \in 1..Len(rows) :
        /\ rows[i].data_appuntamento = new_date
        /\ rows[i].fascia_oraria = new_time_slot
        /\ (ExcludesCancelled(rev) => rows[i].stato # "cancellato")})

\* the threshold off by one: count > 5
SlotFullOffByOne(count) == count > MaxPerSlot

\* parseInt(availability.rows[0].count) >= 5
SlotFull(count) == count >= MaxPerSlot

\* alternatives: [{date: new_date, time: '08:00-12:00'}, {date: new_date, time: '13:00-17:00'}]
Alternatives(new_date) ==
    << [date |-> new_date, time |-> "08:00-12:00"],
       [date |-> new_date, time |-> "13:00-17:00"] >>

\* reason || 'Riprogrammato su richiesta cliente'
ReasonOrDefault(reason) == IF Truthy(reason) THEN reason ELSE DefaultReason

\* a reschedule that marks the row cancelled instead of moved
RescheduleRowCancelling(row, new_date, new_time_slot, reason, now, rev) ==
    [row EXCEPT !.data_appuntamento = new_date, !.fascia_oraria = new_time_slot,
                !.stato = "cancellato"]

\* one row under UPDATE ... SET data_appuntamento = $1, fascia_oraria = $2,
\*   stato = 'riprogrammato' [, note_riprogrammazione = $3, data_modifica = now]
RescheduleRow(row, new_date, new_time_slot, reason, now, rev) ==
    IF WritesNote(rev)
    THEN [row EXCEPT !.data_appuntamento = new_date,
                     !.fascia_oraria = new_time_slot,
                     !.stato = "riprogrammato",
                     !.note_riprogrammazione = ReasonOrDefault(reason),
                     !.data_modifica = now]
    ELSE [row EXCEPT !.data_appuntamento = new_date,
                     !.fascia_oraria = new_time_slot,
                     !.stato = "riprogrammato"]

\* a confirm that also moves the appointment to the day it is confirmed
ConfirmRowMoving(row, now, rev) ==
    [row EXCEPT !.stato = "confermato", !.data_appuntamento = now \div 24]

\* a confirm that only accepts rows still 'programmato'
ConfirmRowOnlyScheduled(row, now, rev) ==
    IF row.stato = "programmato"
    THEN [row EXCEPT !.stato = "confermato", !.data_conferma = now]
    ELSE row

\* a confirm that flips the status of a row already confirmed
ConfirmRowToggle(row, now, rev) ==
    IF row.stato = "confermato" THEN [row EXCEPT !.stato = "programmato"]
    ELSE [row EXCEPT !.stato = "confermato", !.data_conferma = now]

\* one row under UPDATE ... SET stato = 'confermato' [, data_conferma = now]
ConfirmRow(row, now, rev) ==
    IF StampsConferma(rev)
    THEN [row EXCEPT !.stato = "confermato", !.data_conferma = now]
    ELSE [row EXCEPT !.stato = "confermato"]

\* INSERT INTO pianificazioni (...) VALUES ('Mario Rossi Test', ..., 'TEST123456',
\*   'PDR123456', '2024-07-25', '09:00-12:00', '3331234567'); stato takes the
\*   column default 'programmato', the other columns are NULL
TestRow ==
    [matricola |-> TestMatricola, data_appuntamento |-> TestDate,
     fascia_oraria |-> TestSlot, stato |-> "programmato",
     note_riprogrammazione |-> NULL, data_conferma |-> 0, data_modifica |-> 0,
     operatore_id |-> 0]

(* ---------------------------------------------------------------- state *)
VARIABLES
    revision,        \* which revision of the handlers is deployed
    tz,              \* the host's time zone: hours that local time is ahead of UTC
    workload,        \* the request bodies the voice platform sends
    pianificazioni,  \* table pianificazioni: sequence of rows, id = index
    call_logs,       \* table call_logs: sequence of rows
    sms,             \* the calls of sendSMSToOperator made so far
    now,             \* the clock: CURRENT_TIMESTAMP, new Date()
    issued,          \* number of requests received so far
    req              \* the handler invocations: locals and response of each

vars == <<revision, tz, workload, pianificazioni, call_logs, sms, now, issued, req>>

Row(matricola, data, fascia, stato, operatore) ==
    [matricola |-> matricola, data_appuntamento |-> data, fascia_oraria |-> fascia,
     stato |-> stato, note_riprogrammazione |-> NULL, data_conferma |-> 0,
     data_modifica |-> 0, operatore_id |-> operatore]

\* a second date and slot, one week after the seeded test appointment
OtherDate == TestDate + 7
OtherSlot == "08:00-12:00"

\* the seeded store: four live and one cancelled appointment at the test
\* date and slot, and two appointments of one meter (matricola M6) elsewhere
SeedStore ==
    << Row("M1", TestDate, TestSlot, "programmato", 3),
       Row("M2", TestDate, TestSlot, "confermato", 0),
       Row("M3", TestDate, TestSlot, "riprogrammato", 2),
       Row("M4", TestDate, TestSlot, "programmato", 0),
       Row("M5", TestDate, TestSlot, "cancellato", 0),
       Row("M6", OtherDate, OtherSlot, "programmato", 1),
       Row("M6", OtherDate + 1, OtherSlot, "programmato", 4) >>

\* a response not sent yet; a field a response body does not carry stays
\* Undefined (found, is_valid, reason) or empty (the lists, message)
NoResponse ==
    [status |-> 0, success |-> FALSE, outcome |-> "none", notified |-> FALSE,
     date |-> 0, slot |-> NULL, alternatives |-> <<>>, appointment |-> 0,
     found |-> Undefined, message |-> <<>>,
     is_valid |-> Undefined, reason |-> Undefined, suggested_dates |-> <<>>,
     current_date |-> 0, current_date_formatted |-> 0,
     available_dates |-> <<>>, time_slots |-> <<>>]

NoAppointment == [id |-> 0, data_appuntamento |-> 0, fascia_oraria |-> NULL,
                  matricola |-> NULL, operatore_id |-> 0]

IdleRequest ==
    [pc |-> "idle", op |-> "none", appointment_id |-> 0, matricola |-> Undefined,
     new_date |-> 0, new_time_slot |-> NULL, reason |-> Undefined,
     appointment |-> NoAppointment, count |-> -1, result |-> {},
     operatorPhone |-> NULL, smsResult |-> NULL, smsStatus |-> "nessun operatore",
     proposed_date |-> <<>>, caught |-> "none", rejected |-> {},
     res |-> NoResponse]

(* --------------------------------------------------------------- inputs *)
\* request bodies; appointment_id 0 and Undefined stand for an absent field
Search(matricola) ==
    [op |-> "search", appointment_id |-> 0, matricola |-> matricola,
     new_date |-> 0, new_time_slot |-> NULL, reason |-> Undefined]

Confirm(appointment_id, matricola) ==
    [op |-> "confirm", appointment_id |-> appointment_id, matricola |-> matricola,
     new_date |-> 0, new_time_slot |-> NULL, reason |-> Undefined]

Reschedule(appointment_id, matricola, new_date, new_time_slot, reason) ==
    [op |-> "reschedule", appointment_id |-> appointment_id, matricola |-> matricola,
     new_date |-> new_date, new_time_slot |-> new_time_slot, reason |-> reason]

TestAppointment ==
    [op |-> "test", appointment_id |-> 0, matricola |-> Undefined,
     new_date |-> 0, new_time_slot |-> NULL, reason |-> Undefined]

\* request bodies of the two date endpoints; a date text 'YYYY-MM-DD' is the
\* one-element sequence of its day, a missing or empty text the empty sequence
ValidateDateBody(text) == [op |-> "validate", proposed_date |-> text]
CurrentDateBody == [op |-> "current", proposed_date |-> <<>>]

\* the clock at server start: noon UTC of the day before the test date
StartClock == 24 * (TestDate - 1) + 12

\* dates and a slot no appointment should be moved to: the first Sunday after
\* the start, a day before the start, a text that is no slot of the catalog
SundayDate == TestDate + 3
PastDate == TestDate - 8
OddSlot == "10:00-11:00"

\* The sets of request bodies a behaviour draws from.  Each covers one family
\* of cases: two movers to the same pair; a pair filled to the cap; a matricola
\* shared by two rows; one appointment confirmed and moved in turn; lookups;
\* the operator references of the seeded rows; targets that are no offerable
\* date or slot; the date endpoints next to a lookup and a confirm.
Workloads ==
    { { Reschedule(6, Undefined, TestDate, TestSlot, Undefined),
        Reschedule(7, Undefined, TestDate, TestSlot, "Cliente assente"),
        Confirm(6, Undefined) },
      { TestAppointment,
        Reschedule(0, "M4", TestDate, TestSlot, ""),
        Reschedule(6, Undefined, TestDate, TestSlot, Undefined),
        Reschedule(99, "NOPE", TestDate, TestSlot, Undefined) },
      { Reschedule(0, "M6", TestDate, TestSlot, "Cliente assente"),
        Reschedule(0, "M6", OtherDate, "13:00-17:00", ""),
        Confirm(0, "M6"),
        Search("M6") },
      { Confirm(0, "M4"),
        Reschedule(4, "M4", OtherDate, "13:00-17:00", Undefined),
        Confirm(99, "NOPE"),
        Reschedule(99, "NOPE", OtherDate, "13:00-17:00", "Cliente assente") },
      { Search(Undefined), Search(""), Search("NOPE"), Search(TestMatricola),
        TestAppointment, Reschedule(0, TestMatricola, OtherDate, OtherSlot, "") },
      { Confirm(1, Undefined), Confirm(3, Undefined), Confirm(6, Undefined),
        Confirm(7, Undefined), Reschedule(3, Undefined, OtherDate, OtherSlot, "Cliente assente") },
      { Reschedule(1, Undefined, SundayDate, OtherSlot, Undefined),
        Reschedule(2, Undefined, PastDate, "13:00-17:00", "Cliente assente"),
        Reschedule(4, Undefined, OtherDate, OddSlot, Undefined) },
      { ValidateDateBody(<<SundayDate>>), ValidateDateBody(<<PastDate>>),
        ValidateDateBody(<<OtherDate>>), ValidateDateBody(<<>>), CurrentDateBody,
        Search("M6"),
        Confirm(0, "M6") } }

Init ==
    /\ revision \in Revisions
    /\ tz = 0
    /\ workload \in Workloads
    /\ pianificazioni = SeedStore
    /\ call_logs = <<>>
    /\ sms = <<>>
    /\ now = StartClock
    /\ issued = 0
    /\ req = [h \in Handlers |-> IdleRequest]

\* the handler's locals at the moment the body has been read
Received(b) ==
    [IdleRequest EXCEPT !.op = b.op, !.appointment_id = b.appointment_id,
                        !.matricola = b.matricola, !.new_date = b.new_date,
                        !.new_time_slot = b.new_time_slot, !.reason = b.reason]

(* ------------------------------------------------------------ responses *)
Free(h) == req[h].pc \in {"idle", "done"}

\* res.status(500).json({success: false, error: ...}) of the catch block
SystemError == [NoResponse EXCEPT !.status = 500, !.outcome = "SystemError"]

\* res.status(404).json({success: false, error: 'Appuntamento non trovato'})
NotFound == [NoResponse EXCEPT !.status = 404, !.outcome = "NotFound"]

\* res.json({success: false, error: ..., alternatives: [...]})
CapacityExceeded(new_date) ==
    [NoResponse EXCEPT !.status = 200, !.outcome = "CapacityExceeded",
                       !.alternatives = Alternatives(new_date)]

\* whether the success message says that the operator was notified
\* ('Il nostro operatore è stato notificato ...')
SaysNotified(rev, smsStatus) ==
    CASE rev = "latest" -> TRUE
      [] rev = "name" -> smsStatus = "SMS inviato"
      [] OTHER -> FALSE

\* res.json({success: true, message: ...}) with the date and slot the message names
Success(rev, r, date, slot) ==
    [NoResponse EXCEPT !.status = 200, !.success = TRUE, !.outcome = "Success",
                       !.notified = SaysNotified(rev, r.smsStatus),
                       !.date = date, !.slot = slot,
                       !.appointment = r.appointment.id]

Finish(h, r, response) ==
    req' = [req EXCEPT ![h] = [r EXCEPT !.pc = "done", !.res = response]]

Goto(h, r, pc) == req' = [req EXCEPT ![h] = [r EXCEPT !.pc = pc]]

\* a store query of the request was rejected at step r.pc
Rejected(r) == [r EXCEPT !.rejected = @ \cup {r.pc}]

\* an awaited pool.query rejected: catch (error) { console.error(..., error);
\* res.status(500).json(...) }.  caught keeps the step whose query was rejected.
Caught(h, r) ==
    req' = [req EXCEPT ![h] = [Rejected(r) EXCEPT !.pc = "done", !.caught = r.pc,
                                                  !.res = SystemError]]

\* appointmentResult.rows[0] / result.rows[0] as the handler keeps it
Snapshot(rows, i) ==
    [id |-> i, data_appuntamento |-> rows[i].data_appuntamento,
     fascia_oraria |-> rows[i].fascia_oraria, matricola |-> rows[i].matricola,
     operatore_id |-> rows[i].operatore_id]

\* o.telefono of LEFT JOIN operatori o ON p.operatore_id = o.id
OperatoreTelefono(k) == IF k \in DOMAIN operatori THEN operatori[k].telefono ELSE NULL

(* ------------------------------------------------- POST /api/search-appointment *)
\* a search that skips the test of the matricola and always queries
StartSearchUnvalidated(h) ==
    /\ Free(h) /\ issued < MaxRequests
    /\ issued' = issued + 1
    /\ \E b \in workload : b.op = "search" /\ Goto(h, Received(b), "s_query")
    /\ UNCHANGED <<revision, tz, workload, pianificazioni, call_logs, sms, now>>

\* if (!matricola) return res.status(400)...; otherwise the query is awaited
StartSearch(h) ==
    /\ Free(h) /\ issued < MaxRequests
    /\ issued' = issued + 1
    /\ \E b \in workload :
         /\ b.op = "search"
         /\ LET r == Received(b) IN
            IF ~Truthy(b.matricola)
            THEN Finish(h, r, [NoResponse EXCEPT !.status = 400,
                                                 !.outcome = "ValidationError"])
            ELSE Goto(h, r, "s_query")
    /\ UNCHANGED <<revision, tz, workload, pianificazioni, call_logs, sms, now>>

\* a not-found message that does not name the matricola
NotFoundMessageAnonymous(matricola) ==
    << "Non ho trovato alcun appuntamento per la matricola ", "indicata", "." >>

\* `Non ho trovato alcun appuntamento per la matricola ${matricola}. ...`
NotFoundMessage(matricola) ==
    << "Non ho trovato alcun appuntamento per la matricola ", matricola,
       ". Puo' verificare che sia corretta? La matricola si trova nella comunicazione che le abbiamo inviato." >>

\* `Perfetto! Ho trovato il suo appuntamento ... per ${dataFormatted} nella
\* fascia oraria ${appointment.fascia_oraria}.`
FoundMessage(row) ==
    << "Perfetto! Ho trovato il suo appuntamento. L'appuntamento e' programmato per ",
       row.data_appuntamento, " nella fascia oraria ", row.fascia_oraria, "." >>

\* the same query without its ORDER BY
AnyByMatricola(rows, matricola) ==
    {i \in 1..Len(rows) : rows[i].matricola = matricola}

\* SELECT ... WHERE p.matricola = $1 ORDER BY p.data_appuntamento DESC LIMIT 1
LatestByMatricola(rows, matricola) ==
    {i \in 1..Len(rows) :
        /\ rows[i].matricola = matricola
        /\ \A j \in 1..Len(rows) :
              rows[j].matricola = matricola
                  => rows[j].data_appuntamento <= rows[i].data_appuntamento}

\* a search that leaves a call-log row behind
SearchQueryLogging(h) ==
    /\ req[h].pc = "s_query"
    /\ LET r == req[h]
           found == LatestByMatricola(pianificazioni, r.matricola) IN
       /\ Finish(h, r, [NoResponse EXCEPT
                          !.status = 200, !.success = found # {},
                          !.outcome = IF found = {} THEN "NotFound" ELSE "Success",
                          !.found = IF found = {} THEN "false" ELSE "true"])
       /\ call_logs' = Append(call_logs,
                              [matricola |-> r.matricola, action_taken |-> "ricerca",
                               details |-> <<>>, timestamp |-> now])
    /\ UNCHANGED <<revision, tz, workload, pianificazioni, sms, now, issued>>

SearchQuery(h) ==
    /\ req[h].pc = "s_query"
    /\ LET r == req[h] IN
       \E ok \in BOOLEAN :
         IF ~ok THEN Caught(h, r)
         ELSE LET found == LatestByMatricola(pianificazioni, r.matricola) IN
              IF found = {}
              THEN Finish(h, r, [NoResponse EXCEPT
                                    !.status = 200, !.outcome = "NotFound",
                                    !.found = "false",
                                    !.message = NotFoundMessage(r.matricola)])
              ELSE \E i \in found :
                     Finish(h, [r EXCEPT !.appointment = Snapshot(pianificazioni, i)],
                            [NoResponse EXCEPT
                                !.status = 200, !.success = TRUE, !.outcome = "Success",
                                !.found = "true",
                                !.message = FoundMessage(pianificazioni[i]),
                                !.date = pianificazioni[i].data_appuntamento,
                                !.slot = pianificazioni[i].fascia_oraria,
                                !.appointment = i])
    /\ UNCHANGED <<revision, tz, workload, pianificazioni, call_logs, sms, now, issued>>

(* --------------------------------------------------- POST /api/test-appointment *)
StartTestAppointment(h) ==
    /\ Free(h) /\ issued < MaxRequests
    /\ issued' = issued + 1
    /\ \E b \in workload : b.op = "test" /\ Goto(h, Received(b), "t_insert")
    /\ UNCHANGED <<revision, tz, workload, pianificazioni, call_logs, sms, now>>

TestInsert(h) ==
    /\ req[h].pc = "t_insert"
    /\ LET r == req[h] IN
       \E ok \in BOOLEAN :
         IF ~ok
         THEN /\ Caught(h, r)
              /\ UNCHANGED pianificazioni
         ELSE /\ pianificazioni' = Append(pianificazioni, TestRow)
              /\ Finish(h, r, [NoResponse EXCEPT
                                  !.status = 200, !.success = TRUE, !.outcome = "Success",
                                  !.date = TestDate, !.slot = TestSlot,
                                  !.appointment = Len(pianificazioni) + 1])
    /\ UNCHANGED <<revision, tz, workload, call_logs, sms, now, issued>>

(* ------------------------------------------ steps shared by confirm and reschedule *)
\* const appointmentResult = await pool.query(appointmentQuery, [appointment_id, matricola]);
\* rows.length === 0 -> 404; appointment = appointmentResult.rows[0]
SelectStep(h, nextPc) ==
    LET r == req[h] IN
    \E ok \in BOOLEAN :
      IF ~ok THEN Caught(h, r)
      ELSE LET found == Matches(pianificazioni, r.appointment_id, r.matricola) IN
           IF found = {} THEN Finish(h, r, NotFound)
           ELSE \E i \in found :
                  Goto(h, [r EXCEPT !.appointment = Snapshot(pianificazioni, i)], nextPc)

\* the response of a confirm / reschedule whose side effects are over
Done(h, r) ==
    IF r.op = "confirm"
    THEN Finish(h, r, Success(revision, r, r.appointment.data_appuntamento,
                              r.appointment.fascia_oraria))
    ELSE Finish(h, r, Success(revision, r, r.new_date, r.new_time_slot))

\* a handler that waits for ever after the operator notification
AfterNotifyLost(h, r, logPc) == Goto(h, r, "lost")

\* what follows the operator notification: the audit insert, or the response
AfterNotify(h, r, logPc) ==
    IF Audits(revision) THEN Goto(h, r, logPc) ELSE Done(h, r)

\* what follows a committed UPDATE
AfterUpdate(h, r, phonePc, smsPc, logPc) ==
    CASE Notifier(revision) = "byName" ->
            \* if (appointment.operatore_nome_completo)
            IF OperatoreNomeCompleto(r.appointment.operatore_id) # <<>>
            THEN Goto(h, r, phonePc)
            ELSE AfterNotify(h, r, logPc)
      [] Notifier(revision) = "byJoin" ->
            \* if (appointment.operatore_telefono)
            IF Truthy(OperatoreTelefono(r.appointment.operatore_id))
            THEN Goto(h, [r EXCEPT !.operatorPhone =
                                      OperatoreTelefono(r.appointment.operatore_id)],
                      smsPc)
            ELSE AfterNotify(h, r, logPc)
      [] OTHER -> AfterNotify(h, r, logPc)

\* an UPDATE that counts the target pair again and writes nothing when the
\* pair is already full at commit time
UpdateRowsIfRoom(rows, found, r, rev) ==
    [i \in 1..Len(rows) |->
        IF i \notin found THEN rows[i]
        ELSE IF r.op = "confirm" THEN ConfirmRow(rows[i], now, rev)
        ELSE IF SlotFull(AvailabilityCount(rows, r.new_date, r.new_time_slot, rev))
        THEN rows[i]
        ELSE RescheduleRow(rows[i], r.new_date, r.new_time_slot, r.reason, now, rev)]

\* the table after UPDATE pianificazioni SET ... WHERE id = $1 OR matricola = $2:
\* every matching row is rewritten
UpdateRows(rows, found, r, rev) ==
    [i \in 1..Len(rows) |->
        IF i \notin found THEN rows[i]
        ELSE IF r.op = "confirm" THEN ConfirmRow(rows[i], now, rev)
        ELSE RescheduleRow(rows[i], r.new_date, r.new_time_slot, r.reason, now, rev)]

\* RETURNING *: the rewritten rows as stored by the statement
Returning(rows, found) == {[id |-> i, row |-> rows[i]] : i \in found}

\* an UPDATE that is rejected after it has written its rows
UpdateStepTorn(h, phonePc, smsPc, logPc) ==
    LET r == req[h] IN
    \E ok \in BOOLEAN :
      LET found == Matches(pianificazioni, r.appointment_id, r.matricola)
          newRows == UpdateRows(pianificazioni, found, r, revision)
      IN
      IF found = {}
      THEN (IF ok THEN Finish(h, r, NotFound) ELSE Caught(h, r))
           /\ UNCHANGED <<pianificazioni, now>>
      ELSE /\ pianificazioni' = newRows
           /\ now' = now + 1
           /\ IF ok
              THEN AfterUpdate(h, [r EXCEPT !.result = Returning(newRows, found)],
                               phonePc, smsPc, logPc)
              ELSE Caught(h, r)

\* const result = await pool.query(updateQuery, [...]); rows.length === 0 -> 404.
\* The ALTER TABLE ... ADD COLUMN IF NOT EXISTS issued before it changes no row
\* and its failure is swallowed.
UpdateStep(h, phonePc, smsPc, logPc) ==
    LET r == req[h] IN
    \E ok \in BOOLEAN :
      LET found == Matches(pianificazioni, r.appointment_id, r.matricola)
          newRows == UpdateRows(pianificazioni, found, r, revision)
      IN
      IF ~ok
      THEN Caught(h, r) /\ UNCHANGED <<pianificazioni, now>>
      ELSE IF found = {}
      THEN Finish(h, r, NotFound) /\ UNCHANGED <<pianificazioni, now>>
      ELSE /\ pianificazioni' = newRows
           /\ now' = now + 1
           /\ IF HasLookup(revision) \/ r.op # "confirm"
              THEN AfterUpdate(h, [r EXCEPT !.result = Returning(newRows, found)],
                               phonePc, smsPc, logPc)
              ELSE \* const appointment = result.rows[0];
                   \E i \in found :
                     AfterUpdate(h, [r EXCEPT !.result = Returning(newRows, found),
                                              !.appointment = Snapshot(newRows, i)],
                                 phonePc, smsPc, logPc)

\* const operatorPhone = await getOperatorPhone(appointment.operatore_nome_completo);
PhoneStep(h, smsPc, logPc) ==
    LET r == req[h] IN
    \E ok \in BOOLEAN :
      LET got == getOperatorPhone(OperatoreNomeCompleto(r.appointment.operatore_id), ok) IN
      IF Truthy(got.phone)
      THEN Goto(h, [r EXCEPT !.operatorPhone = got.phone], smsPc)
      ELSE AfterNotify(h, [(IF got.queried /\ ~ok THEN Rejected(r) ELSE r)
                              EXCEPT !.smsStatus = "operatore non trovato"], logPc)

\* a notification step that sends again while the gateway does not accept
SmsStepRetry(h, logPc) ==
    LET r == req[h] IN
    \E gw \in GatewayBehaviours :
      LET message == [kind |-> r.op,
                      date |-> IF r.op = "confirm" THEN r.appointment.data_appuntamento
                               ELSE r.new_date,
                      slot |-> IF r.op = "confirm" THEN r.appointment.fascia_oraria
                               ELSE r.new_time_slot]
          out == sendSMSToOperator(r.operatorPhone, message, gw)
      IN
      /\ sms' = Append(sms, [to |-> r.operatorPhone, message |-> message,
                             gateway |-> gw, threw |-> out.threw,
                             result |-> out.result])
      /\ IF Truthy(out.result)
         THEN AfterNotify(h, [r EXCEPT !.smsResult = out.result], logPc)
         ELSE Goto(h, r, r.pc)

\* a notification step that fails the request when the SMS was not sent
SmsStepStrict(h, logPc) ==
    LET r == req[h] IN
    \E gw \in GatewayBehaviours :
      LET message == [kind |-> r.op,
                      date |-> IF r.op = "confirm" THEN r.appointment.data_appuntamento
                               ELSE r.new_date,
                      slot |-> IF r.op = "confirm" THEN r.appointment.fascia_oraria
                               ELSE r.new_time_slot]
          out == sendSMSToOperator(r.operatorPhone, message, gw)
      IN
      /\ sms' = Append(sms, [to |-> r.operatorPhone, message |-> message,
                             gateway |-> gw, threw |-> out.threw,
                             result |-> out.result])
      /\ IF out.threw \/ ~Truthy(out.result) THEN Finish(h, r, SystemError)
         ELSE AfterNotify(h, [r EXCEPT !.smsResult = out.result], logPc)

\* [const smsResult =] await sendSMSToOperator(phone, smsMessage);
\* smsStatus = smsResult ? 'SMS inviato' : 'SMS fallito' (name-lookup revision)
SmsStep(h, logPc) ==
    LET r == req[h] IN
    \E gw \in GatewayBehaviours :
      LET message == [kind |-> r.op,
                      date |-> IF r.op = "confirm" THEN r.appointment.data_appuntamento
                               ELSE r.new_date,
                      slot |-> IF r.op = "confirm" THEN r.appointment.fascia_oraria
                               ELSE r.new_time_slot]
          out == sendSMSToOperator(r.operatorPhone, message, gw)
      IN
      /\ sms' = Append(sms, [to |-> r.operatorPhone, message |-> message,
                             gateway |-> gw, threw |-> out.threw,
                             result |-> out.result])
      /\ IF out.threw THEN Finish(h, r, SystemError)
         ELSE AfterNotify(h, [r EXCEPT
                                 !.smsResult = out.result,
                                 !.smsStatus =
                                     IF Notifier(revision) # "byName" THEN @
                                     ELSE IF Truthy(out.result) THEN "SMS inviato"
                                     ELSE "SMS fallito"],
                          logPc)

\* an audit insert whose failure reaches the catch block of the handler
LogStepStrict(h) ==
    LET r == req[h] IN
    \E ok \in BOOLEAN :
      /\ call_logs' = call_logs
      /\ IF ok THEN Done(h, r) ELSE Finish(h, r, SystemError)

\* an audit step that writes its row twice
LogStepTwice(h) ==
    LET r == req[h]
        entry == [matricola |-> r.matricola,
                  action_taken |-> IF r.op = "confirm" THEN "conferma"
                                   ELSE "riprogrammazione",
                  details |-> IF r.op = "confirm" THEN <<>>
                              ELSE <<r.new_date, r.new_time_slot>>,
                  timestamp |-> now]
    IN /\ call_logs' = Append(Append(call_logs, entry), entry)
       /\ Done(h, r)

\* await pool.query(`INSERT INTO call_logs ...`).catch(() => {}); then res.json(...)
LogStep(h) ==
    LET r == req[h] IN
    \E ok \in BOOLEAN :
      /\ call_logs' =
            IF ok
            THEN Append(call_logs,
                        [matricola |-> r.matricola,
                         action_taken |-> IF r.op = "confirm" THEN "conferma"
                                          ELSE "riprogrammazione",
                         details |-> IF r.op = "confirm" THEN <<>>
                                     ELSE <<r.new_date, r.new_time_slot>>,
                         timestamp |-> now])
            ELSE call_logs
      /\ Done(h, IF ok THEN r ELSE Rejected(r))

(* ------------------------------------------------ POST /api/confirm-appointment *)
StartConfirm(h) ==
    /\ Free(h) /\ issued < MaxRequests
    /\ issued' = issued + 1
    /\ \E b \in workload :
         /\ b.op = "confirm"
         /\ Goto(h, Received(b), IF HasLookup(revision) THEN "c_select" ELSE "c_update")
    /\ UNCHANGED <<revision, tz, workload, pianificazioni, call_logs, sms, now>>

ConfirmSelect(h) ==
    /\ req[h].pc = "c_select"
    /\ SelectStep(h, "c_update")
    /\ UNCHANGED <<revision, tz, workload, pianificazioni, call_logs, sms, now, issued>>

\* a confirm that goes to its audit insert without issuing the UPDATE
ConfirmUpdateSkipped(h) ==
    /\ req[h].pc = "c_update"
    /\ Goto(h, req[h], "c_log")
    /\ UNCHANGED <<revision, tz, workload, pianificazioni, call_logs, sms, now, issued>>

ConfirmUpdate(h) ==
    /\ req[h].pc = "c_update"
    /\ UpdateStep(h, "c_phone", "c_sms", "c_log")
    /\ UNCHANGED <<revision, tz, workload, call_logs, sms, issued>>

ConfirmPhone(h) ==
    /\ req[h].pc = "c_phone"
    /\ PhoneStep(h, "c_sms", "c_log")
    /\ UNCHANGED <<revision, tz, workload, pianificazioni, call_logs, sms, now, issued>>

ConfirmSms(h) ==
    /\ req[h].pc = "c_sms"
    /\ SmsStep(h, "c_log")
    /\ UNCHANGED <<revision, tz, workload, pianificazioni, call_logs, now, issued>>

ConfirmLog(h) ==
    /\ req[h].pc = "c_log"
    /\ LogStep(h)
    /\ UNCHANGED <<revision, tz, workload, pianificazioni, sms, now, issued>>

(* --------------------------------------------- POST /api/reschedule-appointment *)
StartReschedule(h) ==
    /\ Free(h) /\ issued < MaxRequests
    /\ issued' = issued + 1
    /\ \E b \in workload :
         /\ b.op = "reschedule"
         /\ Goto(h, Received(b), IF HasLookup(revision) THEN "r_select" ELSE "r_count")
    /\ UNCHANGED <<revision, tz, workload, pianificazioni, call_logs, sms, now>>

RescheduleSelect(h) ==
    /\ req[h].pc = "r_select"
    /\ SelectStep(h, "r_count")
    /\ UNCHANGED <<revision, tz, workload, pianificazioni, call_logs, sms, now, issued>>

\* a capacity check that moves the appointment before it refuses the slot
RescheduleCountReserving(h) ==
    /\ req[h].pc = "r_count"
    /\ LET r == req[h]
           count == AvailabilityCount(pianificazioni, r.new_date,
                                      r.new_time_slot, revision)
           r1 == [r EXCEPT !.count = count]
           found == Matches(pianificazioni, r.appointment_id, r.matricola)
       IN IF SlotFull(count)
          THEN /\ Finish(h, r1, CapacityExceeded(r.new_date))
               /\ pianificazioni' = UpdateRows(pianificazioni, found, r, revision)
          ELSE Goto(h, r1, "r_update") /\ UNCHANGED pianificazioni
    /\ UNCHANGED <<revision, tz, workload, call_logs, sms, now, issued>>

\* const availability = await pool.query(availabilityQuery, [new_date, new_time_slot]);
\* if (parseInt(availability.rows[0].count) >= 5) return res.json({... alternatives ...})
RescheduleCount(h) ==
    /\ req[h].pc = "r_count"
    /\ LET r == req[h] IN
       \E ok \in BOOLEAN :
         IF ~ok THEN Caught(h, r)
         ELSE LET count == AvailabilityCount(pianificazioni, r.new_date,
                                             r.new_time_slot, revision)
                  r1 == [r EXCEPT !.count = count]
              IN IF SlotFull(count) THEN Finish(h, r1, CapacityExceeded(r.new_date))
                 ELSE Goto(h, r1, "r_update")
    /\ UNCHANGED <<revision, tz, workload, pianificazioni, call_logs, sms, now, issued>>

RescheduleUpdate(h) ==
    /\ req[h].pc = "r_update"
    /\ UpdateStep(h, "r_phone", "r_sms", "r_log")
    /\ UNCHANGED <<revision, tz, workload, call_logs, sms, issued>>

ReschedulePhone(h) ==
    /\ req[h].pc = "r_phone"
    /\ PhoneStep(h, "r_sms", "r_log")
    /\ UNCHANGED <<revision, tz, workload, pianificazioni, call_logs, sms, now, issued>>

RescheduleSms(h) ==
    /\ req[h].pc = "r_sms"
    /\ SmsStep(h, "r_log")
    /\ UNCHANGED <<revision, tz, workload, pianificazioni, call_logs, now, issued>>

RescheduleLog(h) ==
    /\ req[h].pc = "r_log"
    /\ LogStep(h)
    /\ UNCHANGED <<revision, tz, workload, pianificazioni, sms, now, issued>>

(* ------------------------------------------------------------ dates *)
\* Instants are hours since 1970-01-01T00:00Z, calendar dates are days since
\* 1970-01-01.  A date text 'YYYY-MM-DD' is the one-element sequence of its
\* day; a missing or empty text is the empty sequence.  Time zones are fixed
\* offsets (no daylight-saving change inside a horizon).

\* the weekday of a calendar date, 0 = Sunday (1970-01-01 was a Thursday)
Weekday(d) == (d + 4) % 7

\* date.toISOString().split('T')[0]: the calendar date in UTC
toISODate(t) == t \div 24

\* date.toLocaleDateString('it-IT'): the calendar date on the host's clock
toLocaleDateString(t, zone) == (t + zone) \div 24

\* date.getDay(): the weekday on the host's clock
getDay(t, zone) == Weekday(toLocaleDateString(t, zone))

\* new Date('YYYY-MM-DD'): a date-only text is read as midnight UTC
ParseDate(text) == text[1] * 24

\* date.setDate(date.getDate() + i): the same wall-clock time i days later
AddDays(t, i) == t + 24 * i

\* list.slice(0, n)
Slice(list, n) == SubSeq(list, 1, IF Len(list) < n THEN Len(list) ELSE n)

\* the loop of get-current-date and of getSuggestedDates: for i = 1..horizon,
\* the days whose getDay() is not 0, each pushed with its UTC date text, its
\* local display form and its local weekday
OfferableDates(today, zone, horizon) ==
    LET day(i) == AddDays(today, i)
        kept == SelectSeq([i \in 1..horizon |-> i], LAMBDA i : getDay(day(i), zone) # 0)
    IN [k \in 1..Len(kept) |->
           [date |-> toISODate(day(kept[k])),
            formatted |-> toLocaleDateString(day(kept[k]), zone),
            dayName |-> getDay(day(kept[k]), zone)]]

\* for (let i = 1; i <= 7; i++) / suggested.slice(0, 5)
SuggestedHorizon == 7
SuggestedLimit == 5

\* for (let i = 1; i <= 30; i++) / availableDates.slice(0, 10)
AvailableHorizon == 30
AvailableLimit == 10

getSuggestedDates(today, zone) ==
    Slice(OfferableDates(today, zone, SuggestedHorizon), SuggestedLimit)

\* time_slots / available_time_slots
TimeSlots ==
    << "08:00-12:00", "09:00-12:00", "13:00-17:00", "14:00-17:00", "14:00-18:00" >>

\* res.json of a refused date
Invalid(reason, today, zone) ==
    [NoResponse EXCEPT !.status = 200, !.outcome = "Invalid", !.is_valid = "false",
                       !.reason = reason,
                       !.message = IF reason = "past_date"
                                   THEN << "Oggi e' ", toLocaleDateString(today, zone) >>
                                   ELSE << "Non effettuiamo interventi di domenica." >>,
                       !.suggested_dates = getSuggestedDates(today, zone)]

(* ----------------------------------------- POST /api/validate-appointment-date *)
\* a validation that applies the Sunday rule before the past-date rule
ValidateDateSundayFirst(h) ==
    /\ Free(h) /\ issued < MaxRequests
    /\ issued' = issued + 1
    /\ \E b \in workload :
         /\ b.op = "validate"
         /\ LET r == [IdleRequest EXCEPT !.op = b.op, !.proposed_date = b.proposed_date]
                today == now
            IN IF b.proposed_date = <<>>
               THEN Finish(h, r, [NoResponse EXCEPT !.status = 400,
                                                    !.outcome = "ValidationError"])
               ELSE LET proposedDate == ParseDate(b.proposed_date) IN
                    IF getDay(proposedDate, tz) = 0
                    THEN Finish(h, r, Invalid("sunday", today, tz))
                    ELSE IF proposedDate <= today
                    THEN Finish(h, r, Invalid("past_date", today, tz))
                    ELSE Finish(h, r,
                            [NoResponse EXCEPT
                                !.status = 200, !.success = TRUE, !.outcome = "Valid",
                                !.is_valid = "true", !.time_slots = TimeSlots])
    /\ UNCHANGED <<revision, tz, workload, pianificazioni, call_logs, sms, now>>

ValidateDate(h) ==
    /\ Free(h) /\ issued < MaxRequests
    /\ issued' = issued + 1
    /\ \E b \in workload :
         /\ b.op = "validate"
         /\ LET r == [IdleRequest EXCEPT !.op = b.op, !.proposed_date = b.proposed_date]
                today == now
            IN IF b.proposed_date = <<>>
               THEN Finish(h, r, [NoResponse EXCEPT !.status = 400,
                                                    !.outcome = "ValidationError"])
               ELSE LET proposedDate == ParseDate(b.proposed_date) IN
                    IF proposedDate <= today
                    THEN Finish(h, r, Invalid("past_date", today, tz))
                    ELSE IF getDay(proposedDate, tz) = 0
                    THEN Finish(h, r, Invalid("sunday", today, tz))
                    ELSE Finish(h, r,
                            [NoResponse EXCEPT
                                !.status = 200, !.success = TRUE, !.outcome = "Valid",
                                !.is_valid = "true",
                                !.message = << "Perfetto! La data ",
                                               toLocaleDateString(proposedDate, tz),
                                               " e' disponibile." >>,
                                !.time_slots = TimeSlots])
    /\ UNCHANGED <<revision, tz, workload, pianificazioni, call_logs, sms, now>>

(* ------------------------------------------------- POST /api/get-current-date *)
GetCurrentDate(h) ==
    /\ Free(h) /\ issued < MaxRequests
    /\ issued' = issued + 1
    /\ \E b \in workload :
         /\ b.op = "current"
         /\ LET r == [IdleRequest EXCEPT !.op = b.op]
                today == now
            IN Finish(h, r,
                  [NoResponse EXCEPT
                      !.status = 200, !.success = TRUE, !.outcome = "Success",
                      !.current_date = toISODate(today),
                      !.current_date_formatted = toLocaleDateString(today, tz),
                      !.message = << "Oggi e' ", toLocaleDateString(today, tz) >>,
                      !.available_dates =
                          Slice(OfferableDates(today, tz, AvailableHorizon), AvailableLimit),
                      !.time_slots = TimeSlots])
    /\ UNCHANGED <<revision, tz, workload, pianificazioni, call_logs, sms, now>>

\* the days the clock is set to, the hours of the day it shows (UTC) and the
\* time zones of the host; the proposals reach from the day before the
\* clock's UTC date to ProposalDays days after it
ClockDays == 7
ProposalDays == 9
HoursOfDay == {0, 12, 23}
Offsets == {-5, 0, 2}
Clocks == {24 * d + hh : d \in TestDate..(TestDate + ClockDays - 1), hh \in HoursOfDay}

DateWorkload(day) ==
    {ValidateDateBody(<<d>>) : d \in (day - 1)..(day + ProposalDays)}
        \cup {ValidateDateBody(<<>>), CurrentDateBody}

DateInit ==
    /\ revision = "name"
    /\ tz \in Offsets
    /\ now \in Clocks
    /\ workload = DateWorkload(toISODate(now))
    /\ pianificazioni = SeedStore
    /\ call_logs = <<>>
    /\ sms = <<>>
    /\ issued = 0
    /\ req = [h \in Handlers |-> IdleRequest]

DateNext ==
    \/ \E h \in Handlers : ValidateDate(h)
    \/ \E h \in Handlers : GetCurrentDate(h)

DateSpec == DateInit /\ [][DateNext]_vars

(* ------------------------------------------------------------ behaviours *)
Next ==
    \/ \E h \in Handlers : StartSearch(h)
    \/ \E h \in Handlers : SearchQuery(h)
    \/ \E h \in Handlers : StartTestAppointment(h)
    \/ \E h \in Handlers : TestInsert(h)
    \/ \E h \in Handlers : StartConfirm(h)
    \/ \E h \in Handlers : ConfirmSelect(h)
    \/ \E h \in Handlers : ConfirmUpdate(h)
    \/ \E h \in Handlers : ConfirmPhone(h)
    \/ \E h \in Handlers : ConfirmSms(h)
    \/ \E h \in Handlers : ConfirmLog(h)
    \/ \E h \in Handlers : StartReschedule(h)
    \/ \E h \in Handlers : RescheduleSelect(h)
    \/ \E h \in Handlers : RescheduleCount(h)
    \/ \E h \in Handlers : RescheduleUpdate(h)
    \/ \E h \in Handlers : ReschedulePhone(h)
    \/ \E h \in Handlers : RescheduleSms(h)
    \/ \E h \in Handlers : RescheduleLog(h)
    \/ \E h \in Handlers : ValidateDate(h)
    \/ \E h \in Handlers : GetCurrentDate(h)

Spec == Init /\ [][Next]_vars

\* the continuation of the request handler h is working on: the store or the
\* gateway answers the call the handler awaits and the handler runs on
Resume(h) ==
    \/ SearchQuery(h) \/ TestInsert(h)
    \/ ConfirmSelect(h) \/ ConfirmUpdate(h) \/ ConfirmPhone(h)
    \/ ConfirmSms(h) \/ ConfirmLog(h)
    \/ RescheduleSelect(h) \/ RescheduleCount(h) \/ RescheduleUpdate(h)
    \/ ReschedulePhone(h) \/ RescheduleSms(h) \/ RescheduleLog(h)

\* every awaited call is answered in the end (with a result or a rejection)
\* and the event loop then runs the continuation
LiveSpec == Init /\ [][Next]_vars /\ \A h \in Handlers : WF_vars(Resume(h))

(* ================================================================ claims *)
\* number of appointments at (d, s) whose status is not 'cancellato'
Live(rows, d, s) ==
    Cardinality({i \in 1..Len(rows) :
        /\ rows[i].data_appuntamento = d
        /\ rows[i].fascia_oraria = s
        /\ rows[i].stato # "cancellato"})

Pairs(rows) ==
    {<<rows[i].data_appuntamento, rows[i].fascia_oraria>> : i \in 1..Len(rows)}

Mutating(h) == req[h].op \in {"confirm", "reschedule"}

Answered(h) == req[h].pc = "done"

\* the ids the UPDATE of handler h rewrote
Rewritten(h) == {x.id : x \in req[h].result}

\* C1: in every reachable state of the latest and of the complete revision
\* at most 5 appointments that are not 'cancellato' share one (date, slot) pair.
C1_CapInvariant ==
    ExcludesCancelled(revision) =>
    \A p \in Pairs(pianificazioni) : Live(pianificazioni, p[1], p[2]) <= MaxPerSlot

\* C2: when the availability query of a reschedule to (D, S) answers while
\* (D, S) holds 5 or more appointments that are not cancelled, the request
\* ends there, refused (success = false) with CapacityExceeded and exactly the
\* alternatives (D, '08:00-12:00'), (D, '13:00-17:00').
C2_FullSlotRefused ==
    [][\A h \in Handlers :
         ( /\ req[h].pc = "r_count"
           /\ req'[h].pc # "r_count"
           /\ req'[h].res.outcome # "SystemError"
           /\ Live(pianificazioni, req[h].new_date, req[h].new_time_slot) >= 5 )
         => /\ req'[h].pc = "done"
            /\ req'[h].res.outcome = "CapacityExceeded"
            /\ req'[h].res.success = FALSE
            /\ req'[h].res.alternatives =
                  << [date |-> req[h].new_date, time |-> "08:00-12:00"],
                     [date |-> req[h].new_date, time |-> "13:00-17:00"] >>
            /\ pianificazioni' = pianificazioni]_vars

\* a reschedule of an existing appointment was refused for capacity
C2_Witness ==
    \E h \in Handlers :
        /\ req[h].op = "reschedule" /\ Answered(h)
        /\ req[h].res.outcome = "CapacityExceeded"
        /\ req[h].count >= 5
        /\ Matches(pianificazioni, req[h].appointment_id, req[h].matricola) # {}
        /\ Live(pianificazioni, req[h].new_date, req[h].new_time_slot) >= 5

\* C3: the capacity check is not repeated at commit.  A reschedule that read a
\* count below 5 and whose target exists rewrites its rows when its UPDATE
\* answers, whatever the pair holds by then, and is not refused afterwards; so
\* two requests that both read 4 both commit and leave 6 (the witness).
C3_CommitNotRechecked ==
    [][\A h \in Handlers :
         ( /\ req[h].pc = "r_update"
           /\ req'[h].pc # "r_update"
           /\ req'[h].res.outcome # "SystemError"
           /\ Matches(pianificazioni, req[h].appointment_id, req[h].matricola) # {} )
         => /\ req[h].count < 5
            /\ req'[h].res.outcome \in {"none", "Success"}
            /\ \A i \in Matches(pianificazioni, req[h].appointment_id, req[h].matricola) :
                  /\ pianificazioni'[i].data_appuntamento = req[h].new_date
                  /\ pianificazioni'[i].fascia_oraria = req[h].new_time_slot]_vars

\* two reschedules of different appointments both read 4 at the same pair,
\* both returned success, and the pair holds 6 live appointments
C3_Witness ==
    \E h1, h2 \in Handlers :
        /\ h1 # h2
        /\ req[h1].op = "reschedule" /\ req[h2].op = "reschedule"
        /\ Answered(h1) /\ Answered(h2)
        /\ req[h1].res.success /\ req[h2].res.success
        /\ req[h1].new_date = req[h2].new_date
        /\ req[h1].new_time_slot = req[h2].new_time_slot
        /\ req[h1].count = 4 /\ req[h2].count = 4
        /\ Rewritten(h1) # {} /\ Rewritten(h2) # {}
        /\ Rewritten(h1) \cap Rewritten(h2) = {}
        /\ Live(pianificazioni, req[h1].new_date, req[h1].new_time_slot) = 6

\* the note a successful reschedule is to leave
ExpectedNote(reason) ==
    IF reason = Undefined \/ reason = "" THEN "Riprogrammato su richiesta cliente"
    ELSE reason

\* C4 (name-lookup, latest and complete revision): a reschedule that returned success stored, for every row it rewrote,
\* date = newDate, slot = newSlot, status 'riprogrammato' and the note equal to
\* the reason, or to 'Riprogrammato su richiesta cliente' without one.
C4_RescheduleStores ==
    \A h \in Handlers :
        (revision # "first" /\ req[h].op = "reschedule" /\ Answered(h) /\ req[h].res.success)
        => /\ req[h].result # {}
           /\ \A x \in req[h].result :
                 /\ x.row.data_appuntamento = req[h].new_date
                 /\ x.row.fascia_oraria = req[h].new_time_slot
                 /\ x.row.stato = "riprogrammato"
                 /\ x.row.note_riprogrammazione = ExpectedNote(req[h].reason)

\* C5 (name-lookup, latest and complete revision): a confirm whose id or matricola matches a stored appointment sets the
\* status 'confermato', stamps data_conferma and returns success; one that
\* matches nothing returns NotFound (the store answering).
C5_ConfirmOutcome ==
    \A h \in Handlers :
        (revision # "first" /\ req[h].op = "confirm" /\ Answered(h) /\ req[h].res.outcome # "SystemError")
        => IF Matches(pianificazioni, req[h].appointment_id, req[h].matricola) = {}
           THEN req[h].res.outcome = "NotFound" /\ req[h].res.status = 404
           ELSE /\ req[h].res.success
                /\ req[h].result # {}
                /\ \A x \in req[h].result :
                      x.row.stato = "confermato" /\ x.row.data_conferma # 0

\* C6: confirm is idempotent.  The UPDATE of a confirm leaves every matching
\* row that is already 'confermato' with the same status, date and slot, and
\* a confirm that rewrote rows returns success.
C6_ConfirmIdempotent ==
    /\ [][\A h \in Handlers :
            ( /\ req[h].pc = "c_update"
              /\ req'[h].pc # "c_update"
              /\ req'[h].res.outcome # "SystemError" )
            => \A i \in Matches(pianificazioni, req[h].appointment_id, req[h].matricola) :
                  pianificazioni[i].stato = "confermato"
                  => /\ pianificazioni'[i].stato = "confermato"
                     /\ pianificazioni'[i].data_appuntamento =
                            pianificazioni[i].data_appuntamento
                     /\ pianificazioni'[i].fascia_oraria = pianificazioni[i].fascia_oraria
                     /\ req'[h].res.outcome \in {"none", "Success"}]_vars
    /\ [](\A h \in Handlers :
            (req[h].op = "confirm" /\ Answered(h) /\ req[h].result # {})
            => req[h].res.success)

\* the same rows were confirmed by two requests, both answered with success
C6_Witness ==
    \E h1, h2 \in Handlers :
        /\ h1 # h2
        /\ req[h1].op = "confirm" /\ req[h2].op = "confirm"
        /\ Answered(h1) /\ Answered(h2)
        /\ req[h1].res.success /\ req[h2].res.success
        /\ Rewritten(h1) # {} /\ Rewritten(h1) = Rewritten(h2)
        /\ \A i \in Rewritten(h1) : pianificazioni[i].stato = "confermato"

\* C7: a confirm or reschedule whose UPDATE rewrote rows returns success
\* whatever operator resolution and the SMS send do, and no later step of the
\* request touches the appointments again (nothing is rolled back).
C7_SideEffectsNeverFail ==
    /\ [](\A h \in Handlers :
            (Mutating(h) /\ Answered(h) /\ req[h].result # {})
            => req[h].res.success /\ req[h].res.status = 200)
    /\ [][\A h \in Handlers :
            (req[h].result # {} /\ req'[h] # req[h])
            => pianificazioni' = pianificazioni]_vars

\* a request committed, its notification failed or its operator was not
\* resolved, and it returned success with its rows still rewritten
C7_Witness ==
    \E h \in Handlers :
        /\ Mutating(h) /\ Answered(h) /\ req[h].res.success
        /\ req[h].result # {}
        /\ \/ req[h].smsStatus \in {"SMS fallito", "operatore non trovato"}
           \/ (req[h].operatorPhone # NULL /\ req[h].smsResult = NULL)
        /\ \A x \in req[h].result : pianificazioni[x.id] = x.row

\* C8 (name-lookup and latest revision): a success message says that the operator was notified only if the
\* notification of that request was delivered (sendSMSToOperator returned a
\* result, not null).
C8_NotifiedOnlyWhenSent ==
    \A h \in Handlers :
        (HasLookup(revision) /\ Mutating(h) /\ Answered(h) /\ req[h].res.success /\ req[h].res.notified)
        => Truthy(req[h].smsResult)

\* C9 (first, latest and complete revision): a reschedule whose id and matricola match no stored appointment ends
\* in NotFound, however many appointments hold the requested pair.
C9_NotFoundBeforeCapacity ==
    \A h \in Handlers :
        ( /\ revision # "name"
          /\ req[h].op = "reschedule" /\ Answered(h)
          /\ req[h].res.outcome # "SystemError"
          /\ Matches(pianificazioni, req[h].appointment_id, req[h].matricola) = {} )
        => req[h].res.outcome = "NotFound"

\* C10: sendSMSToOperator never raises: every call returns, and a call whose
\* fetch or body parsing failed returns null, never a gateway body.
C10_NotifyNeverThrows ==
    \A k \in 1..Len(sms) :
        /\ sms[k].threw = FALSE
        /\ sms[k].result \in {NULL, "body_ids", "body_error"}
        /\ (sms[k].gateway \in {"network_error", "unparsable"} => sms[k].result = NULL)
        /\ (sms[k].gateway = "accepted" => sms[k].result = "body_ids")

\* the gateway was unreachable for a send, which returned null to a handler
\* that went on to answer
C10_Witness ==
    \E k \in 1..Len(sms), h \in Handlers :
        /\ sms[k].gateway = "network_error" /\ sms[k].result = NULL
        /\ Answered(h) /\ req[h].operatorPhone = sms[k].to /\ req[h].smsResult = NULL
        /\ req[h].res.success

\* C11: the audit insert decides nothing.  The step that runs the call_logs
\* insert of a confirm or reschedule ends in the response fixed by the state
\* before the step (success, with the same date and slot) and leaves the
\* appointments as they were, whether the insert appended its row or failed.
C11_AuditFailureIgnored ==
    [][\A h \in Handlers :
         (req[h].pc \in {"c_log", "r_log"} /\ req'[h] # req[h])
         => /\ pianificazioni' = pianificazioni
            /\ call_logs' = call_logs \/ Len(call_logs') = Len(call_logs) + 1
            /\ req'[h] =
                 [req[h] EXCEPT
                    !.pc = "done",
                    !.rejected = IF call_logs' = call_logs THEN @ \cup {req[h].pc} ELSE @,
                    !.res = [NoResponse EXCEPT
                               !.status = 200, !.success = TRUE, !.outcome = "Success",
                               !.notified = SaysNotified(revision, req[h].smsStatus),
                               !.date = IF req[h].op = "confirm"
                                        THEN req[h].appointment.data_appuntamento
                                        ELSE req[h].new_date,
                               !.slot = IF req[h].op = "confirm"
                                        THEN req[h].appointment.fascia_oraria
                                        ELSE req[h].new_time_slot,
                               !.appointment = req[h].appointment.id]]]_vars

\* two audited requests rewrote rows and returned success; the audit insert of
\* one failed and that of the other did not
C11_Witness ==
    /\ Audits(revision)
    /\ Len(call_logs) = 1
    /\ \A h \in Handlers :
          /\ Mutating(h) /\ Answered(h) /\ req[h].res.success
          /\ req[h].result # {}
          /\ \A x \in req[h].result : pianificazioni[x.id].stato = x.row.stato

\* C12: a search whose matricola is missing or empty is answered 400
\* ValidationError at once: it is never waiting on, nor answered from, the
\* store query.
C12_EmptyMatricolaRejected ==
    \A h \in Handlers :
        (req[h].op = "search" /\ req[h].matricola \in {Undefined, ""})
        => /\ req[h].pc = "done"
           /\ req[h].res.status = 400
           /\ req[h].res.outcome = "ValidationError"
           /\ req[h].res.success = FALSE
           /\ req[h].res.found = Undefined
           /\ req[h].appointment = NoAppointment

\* one search without matricola and one with an empty matricola were refused
C12_Witness ==
    \E h1, h2 \in Handlers :
        /\ req[h1].op = "search" /\ req[h1].matricola = Undefined
        /\ req[h2].op = "search" /\ req[h2].matricola = ""
        /\ req[h1].res.status = 400 /\ req[h2].res.status = 400
        /\ pianificazioni = SeedStore

\* C13: a search for a non-empty matricola that no stored appointment carries
\* is answered (the store answering) with HTTP 200, found = false and the
\* not-found message that names that matricola; it is not a SystemError.
C13_SearchNotFound ==
    \A h \in Handlers :
        ( /\ req[h].op = "search" /\ Answered(h)
          /\ req[h].matricola \notin {Undefined, ""}
          /\ req[h].res.outcome # "SystemError"
          /\ \A i \in 1..Len(pianificazioni) :
                pianificazioni[i].matricola # req[h].matricola )
        => /\ req[h].res.status = 200
           /\ req[h].res.found = "false"
           /\ req[h].res.outcome = "NotFound"
           /\ Len(req[h].res.message) = 3
           /\ req[h].res.message[2] = req[h].matricola

\* a search for a matricola nobody has was answered found = false
C13_Witness ==
    \E h \in Handlers :
        /\ req[h].op = "search" /\ Answered(h)
        /\ req[h].matricola = "NOPE"
        /\ req[h].res.found = "false"
        /\ \A i \in 1..Len(pianificazioni) : pianificazioni[i].matricola # "NOPE"

\* C14: the step that answers a search for a matricola with stored
\* appointments answers found = true with one appointment of that matricola,
\* and no stored appointment of that matricola has a later date.
C14_SearchReturnsLatest ==
    [][\A h \in Handlers :
         ( /\ req[h].pc = "s_query" /\ req'[h].pc = "done"
           /\ req'[h].res.outcome # "SystemError"
           /\ \E i \in 1..Len(pianificazioni) :
                 pianificazioni[i].matricola = req[h].matricola )
         => /\ req'[h].res.found = "true" /\ req'[h].res.success
            /\ req'[h].res.appointment \in 1..Len(pianificazioni)
            /\ pianificazioni[req'[h].res.appointment].matricola = req[h].matricola
            /\ req'[h].res.date =
                  pianificazioni[req'[h].res.appointment].data_appuntamento
            /\ \A j \in 1..Len(pianificazioni) :
                  pianificazioni[j].matricola = req[h].matricola
                  => pianificazioni[j].data_appuntamento <= req'[h].res.date]_vars

\* a search for the matricola of two appointments was answered with the later
C14_Witness ==
    \E h \in Handlers :
        /\ req[h].op = "search" /\ Answered(h) /\ req[h].res.found = "true"
        /\ Cardinality({i \in 1..Len(pianificazioni) :
                           pianificazioni[i].matricola = req[h].matricola}) = 2
        /\ \E j \in 1..Len(pianificazioni) :
              /\ pianificazioni[j].matricola = req[h].matricola
              /\ pianificazioni[j].data_appuntamento < req[h].res.date

\* The current date can be read off the clock in UTC (current_date) or on the
\* host's clock (the "Oggi e' ..." of the messages).  The date claims are
\* stated so that neither reading can fail them: a premise about today holds
\* under both readings, a conclusion about today under at least one.
TodayEarliest ==
    IF toISODate(now) < toLocaleDateString(now, tz)
    THEN toISODate(now) ELSE toLocaleDateString(now, tz)

TodayLatest ==
    IF toISODate(now) < toLocaleDateString(now, tz)
    THEN toLocaleDateString(now, tz) ELSE toISODate(now)

\* handler h answered a validate-appointment-date request that carried a date
Validated(h) ==
    req[h].op = "validate" /\ Answered(h) /\ req[h].proposed_date # <<>>

\* C15: a proposed date that is today or earlier is answered is_valid = false,
\* reason 'past_date', with at most 5 suggested dates, each (by its date
\* field) strictly after today and not a Sunday.
C15_PastDateRefused ==
    \A h \in Handlers :
        (Validated(h) /\ req[h].proposed_date[1] <= TodayEarliest)
        => /\ req[h].res.is_valid = "false"
           /\ req[h].res.reason = "past_date"
           /\ Len(req[h].res.suggested_dates) <= 5
           /\ \A k \in 1..Len(req[h].res.suggested_dates) :
                 /\ req[h].res.suggested_dates[k].date > TodayEarliest
                 /\ Weekday(req[h].res.suggested_dates[k].date) # 0

\* C16: a proposed date that is a Sunday strictly after today is answered
\* is_valid = false with reason 'sunday'.
C16_SundayRefused ==
    \A h \in Handlers :
        ( /\ Validated(h)
          /\ req[h].proposed_date[1] > TodayLatest
          /\ Weekday(req[h].proposed_date[1]) = 0 )
        => /\ req[h].res.is_valid = "false"
           /\ req[h].res.reason = "sunday"

\* C17: a proposed date strictly after today that is not a Sunday is answered
\* is_valid = true with the five time slots of the catalog, in order.
C17_FutureWeekdayAccepted ==
    \A h \in Handlers :
        ( /\ Validated(h)
          /\ req[h].proposed_date[1] > TodayLatest
          /\ Weekday(req[h].proposed_date[1]) # 0 )
        => /\ req[h].res.is_valid = "true"
           /\ req[h].res.success
           /\ req[h].res.time_slots =
                 << "08:00-12:00", "09:00-12:00", "13:00-17:00",
                    "14:00-17:00", "14:00-18:00" >>

\* C18: get-current-date answers exactly 10 available dates, strictly
\* ascending, all strictly after today, none a Sunday, leaving out no earlier
\* date after today that is not a Sunday, and the five time slots.
C18_TenEarliestDates ==
    \A h \in Handlers :
        (req[h].op = "current" /\ Answered(h))
        => LET a == req[h].res.available_dates IN
           /\ Len(a) = 10
           /\ \A k \in 1..Len(a) : a[k].date > TodayEarliest /\ Weekday(a[k].date) # 0
           /\ \A k \in 1..(Len(a) - 1) : a[k].date < a[k + 1].date
           /\ \A d \in (TodayLatest + 1)..a[Len(a)].date :
                 Weekday(d) # 0 => \E k \in 1..Len(a) : a[k].date = d
           /\ req[h].res.time_slots =
                 << "08:00-12:00", "09:00-12:00", "13:00-17:00",
                    "14:00-17:00", "14:00-18:00" >>

\* C19: no step makes an appointment 'cancellato': a row that is cancelled
\* after a step was already cancelled before it, so the cancelled rows of
\* every reachable state are the cancelled rows of the initial store and a
\* store without any stays without any.
C19_NeverCancelled ==
    /\ [][\A i \in 1..Len(pianificazioni') :
            pianificazioni'[i].stato = "cancellato"
            => (i <= Len(pianificazioni) /\ pianificazioni[i].stato = "cancellato")]_vars
    /\ [](\A i \in 1..Len(pianificazioni) :
            /\ pianificazioni[i].stato \in
                  {"programmato", "confermato", "riprogrammato", "cancellato"}
            /\ pianificazioni[i].stato = "cancellato"
               => (i <= Len(SeedStore) /\ SeedStore[i].stato = "cancellato"))

\* a confirm, a reschedule and nothing else rewrote rows, a row was inserted,
\* and the only cancelled row is the seeded one
C19_Witness ==
    /\ \E h1, h2 \in Handlers :
          /\ req[h1].op = "reschedule" /\ Answered(h1) /\ Rewritten(h1) # {}
          /\ req[h2].op \in {"confirm", "test"} /\ Answered(h2) /\ req[h2].res.success
    /\ pianificazioni # SeedStore
    /\ {i \in 1..Len(pianificazioni) : pianificazioni[i].stato = "cancellato"} = {5}

\* C20: no transition is refused.  The UPDATE of a confirm leaves every
\* matching row 'confermato' and that of a reschedule (reached only with room
\* in the target slot) leaves every matching row 'riprogrammato', whatever
\* the status before; no other step changes a status; a request that rewrote
\* rows answers Success.  So the status of an appointment is that of the last
\* operation committed on it.
C20_NoTransitionRefused ==
    /\ [][\A h \in Handlers :
            ( /\ req[h].pc \in {"c_update", "r_update"}
              /\ req'[h].pc # req[h].pc
              /\ req'[h].res.outcome # "SystemError" )
            => /\ req'[h].res.outcome \in {"none", "Success", "NotFound"}
               /\ req'[h].res.outcome = "NotFound"
                  <=> Matches(pianificazioni, req[h].appointment_id, req[h].matricola) = {}
               /\ \A i \in 1..Len(pianificazioni) :
                     pianificazioni'[i].stato =
                        IF i \notin Matches(pianificazioni, req[h].appointment_id,
                                            req[h].matricola)
                        THEN pianificazioni[i].stato
                        ELSE IF req[h].op = "confirm" THEN "confermato"
                        ELSE "riprogrammato"]_vars
    /\ [][(\A h \in Handlers :
              req[h].pc \in {"c_update", "r_update"} => req'[h].pc = req[h].pc)
          => \A i \in 1..Len(pianificazioni) :
                pianificazioni'[i].stato = pianificazioni[i].stato]_vars
    /\ [](\A h \in Handlers :
            (Mutating(h) /\ Answered(h) /\ Rewritten(h) # {})
            => req[h].res.outcome = "Success")

\* an appointment was confirmed and then rescheduled, both with success, and
\* is 'riprogrammato'
C20_Witness ==
    \E h1, h2 \in Handlers :
        /\ req[h1].op = "confirm" /\ Answered(h1) /\ req[h1].res.success
        /\ req[h2].op = "reschedule" /\ Answered(h2) /\ req[h2].res.success
        /\ \E x \in req[h2].result :
              /\ x.id \in Rewritten(h1)
              /\ x.row.data_conferma # 0
              /\ pianificazioni[x.id].stato = "riprogrammato"

\* C21 (latest and complete revision): a confirm or reschedule rewrites at
\* most one appointment: the rows its UPDATE returned are at most one.
C21_AtMostOneRewritten ==
    \A h \in Handlers :
        (revision \in {"latest", "complete"} /\ Mutating(h))
        => Cardinality(Rewritten(h)) <= 1

\* C22 (name-lookup, latest and complete revision): cancelled appointments do
\* not count.  A reschedule of an existing appointment to a pair that holds
\* fewer than 5 appointments that are not cancelled is not refused for
\* capacity (the store being as seeded, so nothing moved since the count).
C22_CancelledNotCounted ==
    \A h \in Handlers :
        ( /\ revision # "first"
          /\ req[h].op = "reschedule" /\ Answered(h)
          /\ pianificazioni = SeedStore
          /\ Matches(pianificazioni, req[h].appointment_id, req[h].matricola) # {}
          /\ Live(pianificazioni, req[h].new_date, req[h].new_time_slot) < 5 )
        => req[h].res.outcome # "CapacityExceeded"

\* C23 (latest and complete revision): every reschedule that returned success stored a date strictly after
\* the current date and not a Sunday.
C23_RescheduledDateValid ==
    \A h \in Handlers :
        ( /\ revision \in {"latest", "complete"}
          /\ req[h].op = "reschedule" /\ Answered(h) /\ req[h].res.success )
        => \A x \in req[h].result :
              /\ x.row.data_appuntamento > TodayLatest
              /\ Weekday(x.row.data_appuntamento) # 0

\* C24 (latest and complete revision): the time slot of every stored
\* appointment is one of the five slots of the catalog.
C24_SlotInCatalog ==
    revision \in {"latest", "complete"} =>
    \A i \in 1..Len(pianificazioni) :
        pianificazioni[i].fascia_oraria \in
            {"08:00-12:00", "09:00-12:00", "13:00-17:00", "14:00-17:00", "14:00-18:00"}

\* the steps that await one of the handler's own queries (search SELECT, test
\* INSERT, target SELECT, COUNT, UPDATE)
QuerySteps == {"s_query", "t_insert", "c_select", "c_update", "r_select", "r_count", "r_update"}

ReadOnlyOps == {"search", "validate", "current"}

\* C26: search, get-current-date and validate-appointment-date are read-only:
\* no step of such a request, in any store state, changes an appointment row,
\* a call-log row or the notifications sent (the operators table is never
\* written by any operation).
C26_ReadOnly ==
    [][\A h \in Handlers :
         (req'[h] # req[h] /\ req'[h].op \in ReadOnlyOps)
         => /\ pianificazioni' = pianificazioni
            /\ call_logs' = call_logs
            /\ sms' = sms]_vars

\* a search found an appointment and a date validation answered
C26_Witness ==
    \E h1, h2 \in Handlers :
        /\ req[h1].op = "search" /\ Answered(h1) /\ req[h1].res.found = "true"
        /\ req[h2].op = "validate" /\ Answered(h2)
        /\ req[h2].res.is_valid \in {"true", "false"}

\* display names that hold fewer than two blank-separated tokens
NoLookupNames ==
    {<<>>, <<" ">>, <<"Luigi">>, <<" ", "Luigi", " ">>}

\* display names of two or more tokens that name no operator
NoMatchNames ==
    {<<"Rossi", " ", "Mario">>, <<"Anna", " ", "De">>, <<"Carla", " ", "Bianchi">>,
     <<"Mario", " ", " ", "Rossi">>, <<"Luca", " ", "Anna", " ", "De">>}

\* display names of operator 1 and of operator 2 (compound last name)
MatchNames ==
    {<<"MARIO", " ", "Rossi">>, <<"Mario", " ", "Rossi">>, <<" ", "Mario", " ", "Rossi", " ">>,
     <<"Anna", " ", "De", " ", "Luca">>}

\* the operator a name of MatchNames names
NamedOperator(n) == IF n = <<"Anna", " ", "De", " ", "Luca">> THEN 2 ELSE 1

PhoneSteps == {"c_phone", "r_phone"}

\* the request of handler h is past the operator lookup of the name-lookup revision
PastLookup(h) ==
    /\ revision = "name" /\ Mutating(h) /\ req[h].result # {}
    /\ req[h].pc \notin PhoneSteps

\* C27: getOperatorPhone answers null without a lookup when the name is empty
\* or has fewer than two blank-separated tokens; otherwise it looks up the
\* first token as nome and the other tokens joined by blanks as cognome,
\* ignoring case, and answers null when no operator matches or the lookup is
\* rejected.  The requests of the name-lookup revision carry exactly that phone.
C27_OperatorPhone ==
    /\ \A n \in NoLookupNames : \A ok \in BOOLEAN :
          getOperatorPhone(n, ok) = [queried |-> FALSE, phone |-> NULL]
    /\ \A n \in NoMatchNames \cup MatchNames :
          getOperatorPhone(n, FALSE) = [queried |-> TRUE, phone |-> NULL]
    /\ \A n \in NoMatchNames :
          getOperatorPhone(n, TRUE) = [queried |-> TRUE, phone |-> NULL]
    /\ \A n \in MatchNames :
          getOperatorPhone(n, TRUE) =
             [queried |-> TRUE, phone |-> operatori[NamedOperator(n)].telefono]
    /\ OperatorQuery(<<"Anna">>, <<"De", " ", "Luca">>) = {2}
    /\ OperatorQuery(<<"MARIO">>, <<"Rossi">>) = {1}
    /\ OperatorQuery(<<"Anna">>, <<"De">>) = {}
    /\ \A h \in Handlers :
          PastLookup(h) =>
          LET name == OperatoreNomeCompleto(req[h].appointment.operatore_id) IN
          /\ name \in NoLookupNames
             => /\ req[h].operatorPhone = NULL
                /\ req[h].rejected \cap PhoneSteps = {}
          /\ name \in NoMatchNames => req[h].operatorPhone = NULL
          /\ req[h].rejected \cap PhoneSteps # {} => req[h].operatorPhone = NULL
          /\ (name \in MatchNames /\ req[h].rejected \cap PhoneSteps = {})
             => req[h].operatorPhone = operatori[NamedOperator(name)].telefono

\* one request resolved 'MARIO Rossi' to the phone of operator 1 and another
\* found a one-token name and answered without a phone
C27_Witness ==
    \E h1, h2 \in Handlers :
        /\ PastLookup(h1) /\ Answered(h1)
        /\ OperatoreNomeCompleto(req[h1].appointment.operatore_id) = <<"MARIO", " ", "Rossi">>
        /\ req[h1].operatorPhone = "3331111111"
        /\ PastLookup(h2) /\ Answered(h2)
        /\ OperatoreNomeCompleto(req[h2].appointment.operatore_id) = <<"Luigi">>
        /\ req[h2].smsStatus = "operatore non trovato"

LogSteps == {"c_log", "r_log"}

\* C28: the call log is append-only: every step that changes call_logs keeps
\* the existing entries as they are and adds exactly one entry, the step is
\* the audit insert of a confirm or reschedule request and it ends that
\* request, so no request appends more than one entry.
C28_AppendOnly ==
    /\ [][call_logs' # call_logs
          => /\ Len(call_logs') = Len(call_logs) + 1
             /\ SubSeq(call_logs', 1, Len(call_logs)) = call_logs
             /\ \E h \in Handlers :
                   /\ Mutating(h) /\ req[h].pc \in LogSteps
                   /\ req'[h].pc = "done"
                   /\ call_logs'[Len(call_logs')].matricola = req[h].matricola]_vars
    /\ [](Len(call_logs) <= issued)

\* a confirm and a reschedule each appended their entry
C28_Witness ==
    /\ Len(call_logs) = 2
    /\ call_logs[1].action_taken # call_logs[2].action_taken
    /\ \A h \in Handlers : Mutating(h) /\ Answered(h) /\ req[h].res.success

\* the place of a step in its handler, in the order the handler awaits them
StepRank(pc) ==
    CASE pc = "idle" -> 0
      [] pc \in {"s_query", "t_insert", "c_select", "r_select"} -> 1
      [] pc = "r_count" -> 2
      [] pc \in {"c_update", "r_update"} -> 3
      [] pc \in PhoneSteps -> 4
      [] pc \in {"c_sms", "r_sms"} -> 5
      [] pc \in LogSteps -> 6
      [] OTHER -> 7

\* C29: nothing is retried: a confirm or reschedule request only moves forward
\* through its steps, it writes appointments only in its one UPDATE step and
\* hands exactly one message to the gateway in its one notification step,
\* whatever the gateway and the audit insert answer.
C29_NoRetry ==
    /\ [][\A h \in Handlers :
            (Mutating(h) /\ ~Free(h) /\ req'[h] # req[h])
            => /\ StepRank(req'[h].pc) > StepRank(req[h].pc)
               /\ pianificazioni' # pianificazioni => req[h].pc \in {"c_update", "r_update"}
               /\ sms' # sms
                  => /\ req[h].pc \in {"c_sms", "r_sms"}
                     /\ Len(sms') = Len(sms) + 1
                     /\ SubSeq(sms', 1, Len(sms)) = sms
               /\ req[h].pc \notin {"c_sms", "r_sms"} => sms' = sms]_vars
    /\ [](Len(sms) <= issued)

\* the only request issued was answered as a success although the gateway did
\* not accept the message and the audit insert was rejected; one message was
\* handed to the gateway
C29_Witness ==
    \E h \in Handlers :
        /\ issued = 1 /\ Mutating(h) /\ Answered(h) /\ req[h].res.success
        /\ revision = "latest"
        /\ req[h].operatorPhone # NULL /\ req[h].smsResult = NULL
        /\ req[h].rejected \cap LogSteps # {}
        /\ Len(sms) = 1

Refusals == {"NotFound", "CapacityExceeded"}

\* C30: a confirm or reschedule request that ends in NotFound, and a
\* reschedule that ends in CapacityExceeded, has changed no stored
\* appointment: the step that answers the refusal leaves every row as it was,
\* every step of a request that does change a row records the rows it
\* rewrote, and a refused request has rewritten none.
C30_RefusalChangesNothing ==
    /\ [][\A h \in Handlers :
            (req'[h] # req[h] /\ req'[h].op \in {"confirm", "reschedule"})
            => /\ (req'[h].pc = "done" /\ req'[h].res.outcome \in Refusals)
                  => pianificazioni' = pianificazioni
               /\ pianificazioni' # pianificazioni => req'[h].result # {}]_vars
    /\ [](\A h \in Handlers :
            (Mutating(h) /\ req[h].res.outcome \in Refusals)
            => /\ Answered(h)
               /\ Rewritten(h) = {}
               /\ req[h].res.outcome = "CapacityExceeded" => req[h].op = "reschedule")

\* one request was answered NotFound and a reschedule was answered
\* CapacityExceeded, and every appointment is as seeded
C30_Witness ==
    \E h1, h2 \in Handlers :
        /\ Mutating(h1) /\ req[h1].res.outcome = "NotFound"
        /\ req[h2].op = "reschedule" /\ req[h2].res.outcome = "CapacityExceeded"
        /\ pianificazioni = SeedStore

Failures == Refusals \cup {"SystemError"}

\* C31: side effects follow the mutation: a message is handed to the gateway
\* and an audit entry is appended only by a confirm or reschedule request whose
\* UPDATE has already committed rows; the step that answers NotFound,
\* CapacityExceeded or SystemError is a step up to the UPDATE and sends and
\* appends nothing, and a request answered that way has sent no message and
\* appended no entry.
C31_SideEffectsAfterUpdate ==
    /\ [][/\ (sms' # sms \/ call_logs' # call_logs)
             => \E h \in Handlers :
                   /\ Mutating(h) /\ req'[h] # req[h]
                   /\ req[h].result # {}
                   /\ StepRank(req[h].pc) > 3
          /\ \A h \in Handlers :
               (Mutating(h) /\ req'[h] # req[h] /\ req'[h].pc = "done"
                /\ req'[h].res.outcome \in Failures)
               => /\ StepRank(req[h].pc) <= 3
                  /\ sms' = sms /\ call_logs' = call_logs]_vars
    /\ [](\A h \in Handlers :
            /\ (Mutating(h) /\ StepRank(req[h].pc) \in 4..6) => req[h].result # {}
            /\ (Mutating(h) /\ req[h].res.outcome \in Failures)
               => /\ req[h].result = {}
                  /\ req[h].smsResult = NULL
                  /\ req[h].rejected \cap (PhoneSteps \cup LogSteps) = {})

\* one request committed its UPDATE, notified the operator and appended its
\* audit entry; the other was refused; one message and one entry exist
C31_Witness ==
    \E h1, h2 \in Handlers :
        /\ Mutating(h1) /\ Answered(h1) /\ req[h1].res.success
        /\ req[h1].result # {} /\ req[h1].smsResult # NULL
        /\ Mutating(h2) /\ Answered(h2) /\ req[h2].res.outcome \in Failures
        /\ Len(sms) = 1 /\ Len(call_logs) = 1

\* the number of appointments, of any status, stored at (d, s)
Stored(rows, d, s) ==
    Cardinality({i \in 1..Len(rows) :
        rows[i].data_appuntamento = d /\ rows[i].fascia_oraria = s})

\* C32: no step of a confirm request changes the date or the time slot of any
\* appointment or the number of rows, so the number of appointments stored at
\* every (date, slot) pair is the same before and after the step.
C32_ConfirmKeepsDates ==
    [][\A h \in Handlers :
         (req[h].op = "confirm" /\ req'[h] # req[h])
         => /\ Len(pianificazioni') = Len(pianificazioni)
            /\ \A i \in 1..Len(pianificazioni) :
                  /\ pianificazioni'[i].data_appuntamento = pianificazioni[i].data_appuntamento
                  /\ pianificazioni'[i].fascia_oraria = pianificazioni[i].fascia_oraria
                  /\ pianificazioni'[i].matricola = pianificazioni[i].matricola
            /\ \A p \in Pairs(pianificazioni) \cup Pairs(pianificazioni') :
                  Stored(pianificazioni', p[1], p[2]) = Stored(pianificazioni, p[1], p[2])]_vars

\* a confirm changed the status of a stored appointment and every appointment
\* is at the date and slot it was seeded with
C32_Witness ==
    /\ \E h \in Handlers :
          /\ req[h].op = "confirm" /\ Answered(h) /\ req[h].res.success
          /\ \E x \in req[h].result : SeedStore[x.id].stato # "confermato"
    /\ pianificazioni # SeedStore
    /\ Len(pianificazioni) = Len(SeedStore)
    /\ \A i \in 1..Len(SeedStore) :
          /\ pianificazioni[i].data_appuntamento = SeedStore[i].data_appuntamento
          /\ pianificazioni[i].fascia_oraria = SeedStore[i].fascia_oraria

\* the row of the appointment handler h reports on, as its UPDATE stored it
StoredAtUpdate(h) == {x \in req[h].result : x.id = req[h].appointment.id}

\* C33: whatever reschedules interleave with a confirm, the date and slot in
\* the confirm response and in the confirmation message are the date and slot
\* the appointment had in the store when the UPDATE set it to 'confermato'.
C33_ConfirmReportsStored ==
    /\ [](\A h \in Handlers :
            (req[h].op = "confirm" /\ Answered(h) /\ req[h].res.success)
            => \E x \in StoredAtUpdate(h) :
                  /\ req[h].res.date = x.row.data_appuntamento
                  /\ req[h].res.slot = x.row.fascia_oraria)
    /\ [][\A h \in Handlers :
            (req[h].op = "confirm" /\ req[h].pc = "c_sms" /\ req'[h] # req[h])
            => \E x \in StoredAtUpdate(h) :
                  /\ sms'[Len(sms')].message.date = x.row.data_appuntamento
                  /\ sms'[Len(sms')].message.slot = x.row.fascia_oraria]_vars

\* C34: in the latest and the complete revision the capacity count includes
\* the appointment being moved: a reschedule whose COUNT found 5 non-cancelled
\* appointments at the target pair, the target among them, is refused with
\* CapacityExceeded; and after a successful reschedule that was the only
\* request issued the target pair holds at most 5 non-cancelled appointments.
C34_CountIncludesTarget ==
    \A h \in Handlers :
        (revision \in {"latest", "complete"} /\ req[h].op = "reschedule" /\ Answered(h))
        => /\ (req[h].count = MaxPerSlot /\ req[h].caught = "none")
              => req[h].res.outcome = "CapacityExceeded"
           /\ (issued = 1 /\ req[h].res.success)
              => Live(pianificazioni, req[h].new_date, req[h].new_time_slot) <= MaxPerSlot

\* C35: for every current date getSuggestedDates (the suggested dates of a
\* refused validation) returns exactly 5 dates, strictly ascending, each
\* strictly after today, not a Sunday and at most 7 days after today, leaving
\* out no earlier date after today that is not a Sunday.
C35_FiveSuggestedDates ==
    \A h \in Handlers :
        (req[h].op = "validate" /\ Answered(h) /\ req[h].res.outcome = "Invalid")
        => LET s == req[h].res.suggested_dates IN
           /\ s = getSuggestedDates(now, tz)
           /\ Len(s) = SuggestedLimit
           /\ \A k \in 1..Len(s) :
                 /\ s[k].date > TodayEarliest
                 /\ s[k].date <= TodayLatest + SuggestedHorizon
                 /\ Weekday(s[k].date) # 0
           /\ \A k \in 1..(Len(s) - 1) : s[k].date < s[k + 1].date
           /\ \A d \in (TodayLatest + 1)..s[Len(s)].date :
                 Weekday(d) # 0 => \E k \in 1..Len(s) : s[k].date = d

\* the proposed date of handler h is a Sunday, by the calendar and on the host
SundayProposed(h) ==
    \/ Weekday(req[h].proposed_date[1]) = 0
    \/ getDay(ParseDate(req[h].proposed_date), tz) = 0

Outcomes ==
    {"Success", "Valid", "ValidationError", "NotFound", "CapacityExceeded",
     "Invalid", "SystemError"}

\* C37: when the store and the gateway answer every call, every request that
\* was received is answered in the end; an answered request carries exactly
\* one of the outcomes (success being Success or Valid), a request in flight
\* carries none, and a response, once sent, is not replaced as long as the
\* handler has not received a new request.
C37_OneResponse ==
    /\ \A h \in Handlers : (~Free(h)) ~> Answered(h)
    /\ [](\A h \in Handlers :
            IF Answered(h)
            THEN /\ req[h].res.outcome \in Outcomes
                 /\ req[h].res.success <=> req[h].res.outcome \in {"Success", "Valid"}
                 /\ req[h].res.status \in {200, 400, 404, 500}
            ELSE req[h].res = NoResponse)
    /\ [][\A h \in Handlers :
            req'[h].res # req[h].res
            => /\ req'[h].pc = "done" \/ issued' = issued + 1
               /\ req[h].pc = "done" => issued' = issued + 1]_vars

\* every request issued was answered: a confirm that went through the store
\* and the gateway, and a date validation
C37_Witness ==
    /\ issued = MaxRequests
    /\ \E h1, h2 \in Handlers :
          /\ req[h1].op = "confirm" /\ Answered(h1) /\ req[h1].res.success
          /\ Len(sms) = 1
          /\ req[h2].op = "validate" /\ Answered(h2)
====
